---- MODULE Spec2Model ----
(***************************************************************************)
(* Seat booking for one aircraft cabin (FC723_Final).                      *)
(*                                                                         *)
(*   PartA_4.py  seats carry a status F/R, booked and freed by seat id     *)
(*   PartB.py    seats carry a booking_reference, booked by category and   *)
(*               freed by reference, with a Travelers table                *)
(*   GenerateDB.py  the cabin layout the seat data comes from              *)
(*                                                                         *)
(* Text is modelled as sequences of one-character strings, so that         *)
(* strip(), upper() and the f-string formatting of seat ids are computed.  *)
(* A nullable String column holds Null or Value(s); a nullable Enum column *)
(* holds one of its strings or "None".                                     *)
(***************************************************************************)
EXTENDS Integers, Sequences, FiniteSets, TLC

VARIABLES
    schema,      \* which program created table Seats in FC723_Final.db
    seats,       \* table Seats, in rowid (insertion) order
    travelers,   \* table Travelers (PartB), a set of rows
    hung,        \* the running program never returns to its menu
    last,        \* the handler invocation that ran last, with its outcome
    before,      \* the tables before that invocation
    last2,       \* the invocation before a free_seat, if it reserved a seat
    before2,     \* the tables before that reservation
    pc,          \* per caller: where it is in PartB's book_seat
    sel,         \* per caller: seat_id of the Seat object its session loaded
    cand,        \* per caller: the reference drawn last
    result       \* per caller: what the commit of its last booking printed

vars == <<schema, seats, travelers, hung, last, before, last2, before2,
          pc, sel, cand, result>>

-----------------------------------------------------------------------------
(* Bounds of the model *)

\* positions per cabin row (80 in GenerateDB.py)
NumCols == 3
\* how many of the 36^8 reference strings random.choices can draw here
NumRefs == 2

\* k=8 in generate_booking_reference
RefLen == 8

-----------------------------------------------------------------------------
(* Text *)

ascii_uppercase ==
    <<"A","B","C","D","E","F","G","H","I","J","K","L","M",
      "N","O","P","Q","R","S","T","U","V","W","X","Y","Z">>

ascii_lowercase ==
    <<"a","b","c","d","e","f","g","h","i","j","k","l","m",
      "n","o","p","q","r","s","t","u","v","w","x","y","z">>

digits == <<"0","1","2","3","4","5","6","7","8","9">>

\* PartB.py: chars = string.ascii_uppercase + string.digits
chars == ascii_uppercase \o digits

upper_char(c) ==
    IF \E i \in 1..Len(ascii_lowercase) : ascii_lowercase[i] = c
    THEN ascii_uppercase[CHOOSE i \in 1..Len(ascii_lowercase) : ascii_lowercase[i] = c]
    ELSE c

lower_char(c) ==
    IF \E i \in 1..Len(ascii_uppercase) : ascii_uppercase[i] = c
    THEN ascii_lowercase[CHOOSE i \in 1..Len(ascii_uppercase) : ascii_uppercase[i] = c]
    ELSE c

\* str.upper()
upper(s) == [i \in 1..Len(s) |-> upper_char(s[i])]

\* str.lower(), used to build what a user may type
lower(s) == [i \in 1..Len(s) |-> lower_char(s[i])]

RECURSIVE lstrip(_)
lstrip(s) == IF s # <<>> /\ Head(s) = " " THEN lstrip(Tail(s)) ELSE s

RECURSIVE rstrip(_)
rstrip(s) ==
    IF s # <<>> /\ s[Len(s)] = " " THEN rstrip(SubSeq(s, 1, Len(s) - 1)) ELSE s

\* str.strip()
strip(s) == rstrip(lstrip(s))

\* str(n) of a natural number, as the f-strings format it
RECURSIVE str(_)
str(n) ==
    IF n < 10 THEN <<digits[n + 1]>>
    ELSE str(n \div 10) \o <<digits[(n % 10) + 1]>>

\* a NULL column value, and a non-NULL one
Null == <<>>
Value(s) == <<s>>

-----------------------------------------------------------------------------
(* The layout: GenerateDB.py, one row of Seats.csv per cabin row *)

\* GenerateDB.py: col_num in [77, 78] of range(1, 81)
StorageCols == {NumCols - 3, NumCols - 2}

\* GenerateDB.py: the text of column col_num in row row_label
Cell(row_label, col_num) ==
    IF row_label = <<"X">> THEN <<"X">>
    ELSE IF row_label \in {<<"D">>, <<"E">>, <<"F">>} /\ col_num \in StorageCols
         THEN <<"S">>
         ELSE str(col_num) \o row_label

\* one line of the CSV file: the row label, then the cells
CsvRow(row_label) == <<row_label>> \o [c \in 1..NumCols |-> Cell(row_label, c)]

\* a CSV file listing the rows of rows_order
Csv(rows_order) == [i \in 1..Len(rows_order) |-> CsvRow(rows_order[i])]

\* The files the programs are started on: cabins cut down to a few of the
\* rows A,B,C,X,D,E,F; one lists its rows out of label order, one lists a
\* row twice, and one (BlankLineCsv) has an empty line after its first row.
RowOrders ==
    { << <<"A">>, <<"X">>, <<"E">> >>,
      << <<"F">>, <<"A">> >>,
      << <<"A">>, <<"A">> >> }

\* csv.reader yields [] for an empty line
BlankLineCsv == Csv(<< <<"A">> >>) \o << <<>> >>

CsvFiles == {Csv(o) : o \in RowOrders} \cup {BlankLineCsv}

-----------------------------------------------------------------------------
(* Seat.initialize_database *)

\* the type of a cell
seat_type_of(cell) ==
    IF cell = <<"X">> THEN "aisle"
    ELSE IF cell = <<"S">> THEN "storage"
    ELSE "seat"

\* PartA_4.py: the Seat built for one cell
SeatA(row_label, idx, cell) ==
    LET seat_type == seat_type_of(cell) IN
    [ seat_id  |-> IF seat_type = "seat" THEN cell
                   ELSE row_label \o <<"-">> \o str(idx),
      row      |-> row_label,
      position |-> idx,
      type     |-> seat_type,
      status   |-> IF seat_type = "seat" THEN "F" ELSE "None" ]

\* PartB.py: the category of a row
row_category(row_label) ==
    IF row_label \in {<<"A">>, <<"F">>} THEN "window"
    ELSE IF row_label \in {<<"B">>, <<"E">>} THEN "middle"
    ELSE IF row_label \in {<<"C">>, <<"D">>} THEN "aisle"
    ELSE "middle"

\* PartB.py: the Seat built for one cell
SeatB(row_label, idx, cell) ==
    LET seat_type == seat_type_of(cell) IN
    [ seat_id  |-> IF seat_type = "seat" THEN row_label \o str(idx)
                   ELSE row_label \o <<"-">> \o str(idx),
      row      |-> row_label,
      position |-> idx,
      type     |-> seat_type,
      booking_reference |-> Null,
      category |-> IF seat_type = "seat" THEN row_category(row_label) ELSE "None" ]

\* row_label = csv_row[0] raises IndexError on an empty line
raises_IndexError(csv) == \E k \in 1..Len(csv) : csv[k] = <<>>

\* the Seat objects session.add() receives, in the order it receives them,
\* up to the end of the file or the line that raises
RECURSIVE pending_seats(_, _)
pending_seats(prog, csv) ==
    IF csv = <<>> \/ Head(csv) = <<>> THEN <<>>
    ELSE LET csv_row   == Head(csv)
             row_label == csv_row[1]
             positions == Tail(csv_row)
         IN  [idx \in 1..Len(positions) |->
                 IF prog = "PartA_4" THEN SeatA(row_label, idx, positions[idx])
                 ELSE SeatB(row_label, idx, positions[idx])]
             \o pending_seats(prog, Tail(csv))

\* the flush of session.commit(): the INSERTs in order, the primary key
\* seat_id rejecting a duplicate (IntegrityError)
RECURSIVE flush_inserts(_, _)
flush_inserts(table, pending) ==
    IF pending = <<>> THEN [ok |-> TRUE, table |-> table]
    ELSE IF \E i \in 1..Len(table) : table[i].seat_id = Head(pending).seat_id
         THEN [ok |-> FALSE, table |-> table]
         ELSE flush_inserts(Append(table, Head(pending)), Tail(pending))

\* an initializer that commits seat by seat and keeps what it wrote before
\* the error
initialize_database_partial(prog, table, csv) ==
    IF Len(table) = 0
    THEN flush_inserts(<<>>, pending_seats(prog, csv)).table
    ELSE table

\* an initializer without its count() == 0 test: the table is loaded afresh
initialize_database_reload(prog, table, csv) ==
    LET r == flush_inserts(<<>>, pending_seats(prog, csv)) IN
    IF r.ok /\ ~raises_IndexError(csv) THEN r.table ELSE <<>>

\* Seat.initialize_database: the table afterwards
initialize_database(prog, table, csv) ==
    IF Len(table) = 0
    THEN IF raises_IndexError(csv)
         THEN <<>>                   \* except Exception: session.rollback()
         ELSE LET r == flush_inserts(<<>>, pending_seats(prog, csv)) IN
              IF r.ok THEN r.table   \* session.commit()
              ELSE <<>>              \* except IntegrityError: session.rollback()
    ELSE table

-----------------------------------------------------------------------------
(* Queries *)

\* session.query(Seat).filter_by(seat_id=seat_id).first(): the row's place
\* in the table, 0 for None
query_seat_id(table, seat_id) ==
    IF \E i \in 1..Len(table) : table[i].seat_id = seat_id
    THEN CHOOSE i \in 1..Len(table) :
            /\ table[i].seat_id = seat_id
            /\ \A j \in 1..(i - 1) : table[j].seat_id # seat_id
    ELSE 0

\* the query with its category filter lost
available_rows_uncategorised(table, category) ==
    {i \in 1..Len(table) : table[i].booking_reference = Null}

\* the query with its booking_reference == None filter lost
available_rows_reserved(table, category) ==
    {i \in 1..Len(table) : table[i].category = category}

\* the rows of PartB's query in book_seat
available_rows(table, category) ==
    {i \in 1..Len(table) :
        table[i].category = category /\ table[i].booking_reference = Null}

\* a query that falls back on any free seat when the category has none
first_available_fallback(table, category) ==
    LET free == {i \in 1..Len(table) :
                    table[i].type = "seat" /\ table[i].booking_reference = Null}
        rows == IF available_rows(table, category) # {}
                THEN available_rows(table, category) ELSE free
    IN  IF rows = {} THEN 0
        ELSE CHOOSE i \in rows : \A j \in rows : i <= j

\* PartB book_seat: session.query(Seat).filter(category ==, booking_reference
\* == None).first(). The query has no ORDER BY: SQLite returns the rows in
\* rowid order, the order in which initialize_database inserted them.
first_available(table, category) ==
    IF available_rows(table, category) = {} THEN 0
    ELSE CHOOSE i \in available_rows(table, category) :
            \A j \in available_rows(table, category) : i <= j

\* the query with its filter lost: the first seat holding any reference
existing_any(table, reference) ==
    IF \E i \in 1..Len(table) : table[i].booking_reference # Null
    THEN CHOOSE i \in 1..Len(table) :
            /\ table[i].booking_reference # Null
            /\ \A j \in 1..(i - 1) : table[j].booking_reference = Null
    ELSE 0

\* session.query(Seat).filter_by(booking_reference=reference).first()
existing(table, reference) ==
    IF \E i \in 1..Len(table) : table[i].booking_reference = Value(reference)
    THEN CHOOSE i \in 1..Len(table) :
            /\ table[i].booking_reference = Value(reference)
            /\ \A j \in 1..(i - 1) : table[j].booking_reference # Value(reference)
    ELSE 0

\* session.query(Seat).filter_by(row=row).order_by(Seat.position).all()
order_by_position(table, row) ==
    LET in_row == {i \in 1..Len(table) : table[i].row = row}
        earlier(i) == {j \in in_row :
                          \/ table[j].position < table[i].position
                          \/ table[j].position = table[i].position /\ j < i}
    IN  [k \in 1..Cardinality(in_row) |->
            table[CHOOSE i \in in_row : Cardinality(earlier(i)) = k - 1]]

\* PartA_4: session.query(Seat.row).distinct().order_by(Seat.row).all()
distinct_rows(table) ==
    LET labels == {table[i].row : i \in 1..Len(table)}
        rank(row) == CHOOSE k \in 1..Len(ascii_uppercase) : ascii_uppercase[k] = row[1]
    IN  [k \in 1..Cardinality(labels) |->
            CHOOSE row \in labels :
                Cardinality({r \in labels : rank(r) < rank(row)}) = k - 1]

\* sep.join(parts)
RECURSIVE join(_, _)
join(sep, parts) ==
    IF parts = <<>> THEN <<>>
    ELSE IF Len(parts) = 1 THEN parts[1]
    ELSE parts[1] \o sep \o join(sep, Tail(parts))

-----------------------------------------------------------------------------
(* generate_booking_reference *)

\* the i-th of the strings ''.join(random.choices(chars, k=8)) yields here
RefString(i) == [k \in 1..RefLen |-> IF k < RefLen THEN digits[k + 1] ELSE chars[i]]

Refs == {RefString(i) : i \in 1..NumRefs}

\* the loop without its database check
returns_reference_unchecked(table, reference) == TRUE

\* one pass of the while loop: whether the drawn reference is returned
returns_reference(table, reference) == existing(table, reference) = 0

\* the values the loop can return on this table; none: it never returns
generate_booking_reference(table) ==
    {reference \in Refs : returns_reference(table, reference)}

-----------------------------------------------------------------------------
(* PartB book_seat: the write of the booking *)

category_map(choice) ==
    IF choice = <<"1">> THEN "window"
    ELSE IF choice = <<"2">> THEN "middle"
    ELSE IF choice = <<"3">> THEN "aisle"
    ELSE "None"

\* Traveler(...) as book_seat builds it
Traveler(reference, passport, first_name, last_name, seat) ==
    [ booking_reference |-> reference,
      passport_number   |-> passport,
      first_name        |-> first_name,
      last_name         |-> last_name,
      seat_row          |-> seat.row,
      seat_column       |-> seat.position ]

\* UPDATE Seats SET booking_reference=? WHERE seat_id=?
update_reference(table, seat_id, value) ==
    [i \in 1..Len(table) |->
        IF table[i].seat_id = seat_id
        THEN [table[i] EXCEPT !.booking_reference = value]
        ELSE table[i]]

\* unique=True on Seats.booking_reference, and the CHECK on its length
seat_constraints_ok(table) ==
    /\ \A i, j \in 1..Len(table) :
          (i # j /\ table[i].booking_reference # Null)
             => table[i].booking_reference # table[j].booking_reference
    /\ \A i \in 1..Len(table) :
          \/ table[i].type # "seat"
          \/ table[i].booking_reference = Null
          \/ Len(table[i].booking_reference[1]) = RefLen

\* the flush of session.commit() in book_seat: the UPDATE of the seat, then
\* the INSERT of the traveler; ok is FALSE when a statement raised
\* IntegrityError, and the tables are those of the open transaction
flush_booking(table, trav, seat_id, reference, traveler) ==
    LET updated == update_reference(table, seat_id, Value(reference)) IN
    IF ~seat_constraints_ok(updated)
    THEN [ok |-> FALSE, seats |-> table, travelers |-> trav]
    ELSE IF \E t \in trav : t.booking_reference = traveler.booking_reference
         THEN [ok |-> FALSE, seats |-> updated, travelers |-> trav]
         ELSE [ok |-> TRUE, seats |-> updated, travelers |-> trav \cup {traveler}]

\* a commit whose except branch does not roll back
commit_booking_unrolled(table, trav, seat_id, reference, traveler) ==
    flush_booking(table, trav, seat_id, reference, traveler)

\* try: session.commit() / except IntegrityError: session.rollback()
commit_booking(table, trav, seat_id, reference, traveler) ==
    LET r == flush_booking(table, trav, seat_id, reference, traveler) IN
    IF r.ok THEN r
    ELSE [ok |-> FALSE, seats |-> table, travelers |-> trav]

\* a free_seat that leaves the traveler in place
delete_traveler_kept(trav, reference) == trav

\* a DELETE without its WHERE clause
delete_traveler_all(trav, reference) == {}

\* free_seat: the DELETE of the traveler and the UPDATE of the seat
delete_traveler(trav, reference) ==
    {t \in trav : t.booking_reference # reference}

-----------------------------------------------------------------------------
(* What a user may type *)

\* a text as typed: as it is, or in lower case after a blank
TypedAs(s) == {s, <<" ">> \o lower(s)}

\* at a seat number prompt: the id of a position, or of none
SeatIdInputs ==
    UNION {TypedAs(seats[i].seat_id) : i \in 1..Len(seats)} \cup {<<"9","Z">>}

\* at check_availability's prompt: the id of a position in lower case after
\* a blank, or the id of none
CheckInputs ==
    {<<" ">> \o lower(seats[i].seat_id) : i \in 1..Len(seats)} \cup {<<"9","Z">>}

\* at PartB's "Choice (1-3)" prompt
ChoiceInputs == {<<"1">>, <<"2">>, <<"3">>, <<"1"," ">>, <<"4">>}

\* at PartB's passport and name prompts
TravelerInputs ==
    { [passport |-> <<"P","7">>, first_name |-> <<"A","n","n">>, last_name |-> <<"L","e","e">>],
      [passport |-> <<" ">>,     first_name |-> <<>>,            last_name |-> <<"L","e","e">>] }

\* at PartB's booking reference prompt
ReferenceInputs == UNION {TypedAs(r) : r \in Refs} \cup {<<>>}

-----------------------------------------------------------------------------
(* The record of the last handler invocation and of a reservation just before it *)

Tables == [seats |-> seats, travelers |-> travelers]

NoOp == [prog |-> "none", op |-> "none", input |-> <<>>, outcome |-> "none",
         seat_id |-> <<>>, reference |-> Null]

NoTables == [seats |-> <<>>, travelers |-> {}]

\* the invocation reserved a seat
Reserved(inv) ==
    inv.op = "book" /\ inv.outcome \in {"booked successfully.", "Booked successfully."}

\* the record of an invocation; the one before it is kept when a free_seat
\* follows a reservation
Ran(prog, op, input, outcome, seat_id, reference) ==
    /\ last' = [prog |-> prog, op |-> op, input |-> input, outcome |-> outcome,
                seat_id |-> seat_id, reference |-> reference]
    /\ before' = Tables
    /\ last2' = IF op = "free" /\ Reserved(last)
                THEN [last EXCEPT !.input = <<>>] ELSE NoOp
    /\ before2' = IF op = "free" /\ Reserved(last) THEN before ELSE NoTables

Callers == {"c1", "c2"}

Init ==
    /\ schema = "none"
    /\ seats = <<>>
    /\ travelers = {}
    /\ hung = FALSE
    /\ last = NoOp
    /\ before = NoTables
    /\ last2 = NoOp
    /\ before2 = NoTables
    /\ pc = [p \in Callers |-> "menu"]
    /\ sel = [p \in Callers |-> Null]
    /\ cand = [p \in Callers |-> Null]
    /\ result = [p \in Callers |-> "none"]

-----------------------------------------------------------------------------
(* main(): one program is started on FC723_Final.db *)

\* create_all creates table Seats only if the file has none; the count query
\* of initialize_database raises OperationalError on the other program's
\* columns, outside its try, and main ends. The CSV file is opened, and so is
\* an input of the invocation, only when the table is empty.
Main(prog, csv) ==
    /\ hung' = FALSE
    /\ UNCHANGED <<travelers, pc, sel, cand, result>>
    /\ IF schema \in {"none", prog}
       THEN /\ schema' = prog
            /\ seats' = initialize_database(prog, seats, csv)
            /\ Ran(prog, "main", IF Len(seats) = 0 THEN csv ELSE <<>>,
                   IF Len(seats) # 0 THEN "kept"
                   ELSE IF seats' = <<>> THEN "rolled back" ELSE "loaded",
                   <<>>, Null)
       ELSE /\ UNCHANGED <<schema, seats>>
            /\ Ran(prog, "main", <<>>, "OperationalError", <<>>, Null)

-----------------------------------------------------------------------------
(* PartA_4.py *)

\* book_seat without its "Seat already booked." branch
book_seat_A_unchecked(raw) ==
    LET seat_id == upper(strip(raw))
        i       == query_seat_id(seats, seat_id)
    IN
    /\ schema = "PartA_4" /\ ~hung
    /\ UNCHANGED <<schema, travelers, hung, pc, sel, cand, result>>
    /\ IF i = 0
       THEN /\ UNCHANGED seats
            /\ Ran("PartA_4", "book", raw, "Invalid seat number.", seat_id, Null)
       ELSE IF seats[i].type # "seat"
       THEN /\ UNCHANGED seats
            /\ Ran("PartA_4", "book", raw, "Cannot book non-seat area.", seat_id, Null)
       ELSE /\ seats' = [seats EXCEPT ![i].status = "R"]
            /\ Ran("PartA_4", "book", raw, "booked successfully.", seat_id, Null)

book_seat_A(raw) ==
    LET seat_id == upper(strip(raw))
        i       == query_seat_id(seats, seat_id)
    IN
    /\ schema = "PartA_4" /\ ~hung
    /\ UNCHANGED <<schema, travelers, hung, pc, sel, cand, result>>
    /\ IF i = 0
       THEN /\ UNCHANGED seats
            /\ Ran("PartA_4", "book", raw, "Invalid seat number.", seat_id, Null)
       ELSE IF seats[i].type # "seat"
       THEN /\ UNCHANGED seats
            /\ Ran("PartA_4", "book", raw, "Cannot book non-seat area.", seat_id, Null)
       ELSE IF seats[i].status = "R"
       THEN /\ UNCHANGED seats
            /\ Ran("PartA_4", "book", raw, "Seat already booked.", seat_id, Null)
       ELSE /\ seats' = [seats EXCEPT ![i].status = "R"]
            /\ Ran("PartA_4", "book", raw, "booked successfully.", seat_id, Null)

free_seat_A(raw) ==
    LET seat_id == upper(strip(raw))
        i       == query_seat_id(seats, seat_id)
    IN
    /\ schema = "PartA_4" /\ ~hung
    /\ UNCHANGED <<schema, travelers, hung, pc, sel, cand, result>>
    /\ IF i = 0
       THEN /\ UNCHANGED seats
            /\ Ran("PartA_4", "free", raw, "Invalid seat number.", seat_id, Null)
       ELSE IF seats[i].type # "seat"
       THEN /\ UNCHANGED seats
            /\ Ran("PartA_4", "free", raw, "Cannot free non-seat area.", seat_id, Null)
       ELSE IF seats[i].status = "F"
       THEN /\ UNCHANGED seats
            /\ Ran("PartA_4", "free", raw, "Seat is not booked.", seat_id, Null)
       ELSE /\ seats' = [seats EXCEPT ![i].status = "F"]
            /\ Ran("PartA_4", "free", raw, "freed successfully.", seat_id, Null)

check_availability_A(raw) ==
    LET seat_id == upper(strip(raw))
        i       == query_seat_id(seats, seat_id)
    IN
    /\ schema = "PartA_4" /\ ~hung
    /\ UNCHANGED <<schema, seats, travelers, hung, pc, sel, cand, result>>
    /\ Ran("PartA_4", "check", raw,
           IF i = 0 THEN "Invalid seat number."
           ELSE IF seats[i].type # "seat" THEN "This is not a bookable seat."
           ELSE IF seats[i].status = "F" THEN "is available."
           ELSE "is booked.",
           seat_id, Null)

\* the lines show_booking_status prints
status_lines_A(table) ==
    LET rows == distinct_rows(table)
        symbol(seat) == IF seat.type = "aisle" THEN <<"X">>
                        ELSE IF seat.type = "storage" THEN <<"S">>
                        ELSE IF seat.status # "None" THEN <<seat.status>>
                        ELSE <<"F">>
        line(row_label) ==
            LET row_seats == order_by_position(table, row_label) IN
            join(<<",">>, <<row_label>> \o
                             [k \in 1..Len(row_seats) |-> symbol(row_seats[k])])
    IN  [n \in 1..Len(rows) |-> line(rows[n])]

show_booking_status_A ==
    /\ schema = "PartA_4" /\ ~hung
    /\ UNCHANGED <<schema, seats, travelers, hung, pc, sel, cand, result>>
    /\ Ran("PartA_4", "show", <<>>, status_lines_A(seats), <<>>, Null)

-----------------------------------------------------------------------------
(* PartB.py, one caller: each handler runs from its prompt to its return *)

\* the lines show_booking_status prints
status_lines_B(table) ==
    LET rows == << <<"A">>, <<"B">>, <<"C">>, <<"D">>, <<"E">>, <<"F">> >>
        symbol(seat) == IF seat.type = "aisle" THEN <<" ">>
                        ELSE IF seat.type = "storage" THEN <<"S">>
                        ELSE IF seat.booking_reference # Null THEN <<"R">>
                        ELSE <<"F">>
        line(row) ==
            LET row_seats == order_by_position(table, row) IN
            join(<<" ">>, <<row \o <<":">> >> \o
                             [k \in 1..Len(row_seats) |-> symbol(row_seats[k])])
    IN  [n \in 1..Len(rows) |-> line(rows[n])]

show_booking_status_B ==
    /\ schema = "PartB" /\ ~hung
    /\ UNCHANGED <<schema, seats, travelers, hung, pc, sel, cand, result>>
    /\ Ran("PartB", "show", <<>>, status_lines_B(seats), <<>>, Null)

check_availability_B(raw) ==
    LET seat_id == upper(strip(raw))
        i       == query_seat_id(seats, seat_id)
    IN
    /\ schema = "PartB" /\ ~hung
    /\ UNCHANGED <<schema, seats, travelers, hung, pc, sel, cand, result>>
    /\ Ran("PartB", "check", raw,
           IF i = 0 \/ seats[i].type # "seat" THEN "Invalid seat number."
           ELSE IF seats[i].booking_reference = Null THEN "is available."
           ELSE "is booked.",
           seat_id, Null)

book_seat_B(raw, typed) ==
    LET choice == strip(raw)
        i      == first_available(seats, category_map(choice))
    IN
    /\ schema = "PartB" /\ ~hung
    /\ UNCHANGED <<schema, pc, sel, cand, result>>
    /\ IF category_map(choice) = "None"
       THEN /\ UNCHANGED <<seats, travelers, hung>>
            /\ Ran("PartB", "book", raw, "Invalid choice.", <<>>, Null)
       ELSE IF i = 0
       THEN /\ UNCHANGED <<seats, travelers, hung>>
            /\ Ran("PartB", "book", raw, "No seats available in this category.",
                   <<>>, Null)
       ELSE IF generate_booking_reference(seats) = {}
       THEN \* the while loop of generate_booking_reference never ends
            /\ hung' = TRUE
            /\ UNCHANGED <<seats, travelers>>
            /\ Ran("PartB", "book", raw, "never returns", seats[i].seat_id, Null)
       ELSE \E reference \in generate_booking_reference(seats) :
            LET traveler == Traveler(reference, strip(typed.passport),
                                     strip(typed.first_name),
                                     strip(typed.last_name), seats[i])
                r == commit_booking(seats, travelers, seats[i].seat_id,
                                    reference, traveler)
            IN
            /\ seats' = r.seats
            /\ travelers' = r.travelers
            /\ UNCHANGED hung
            /\ Ran("PartB", "book", raw,
                   IF r.ok THEN "Booked successfully."
                   ELSE "Booking failed (duplicate reference).",
                   seats[i].seat_id, Value(reference))

free_seat_B(raw) ==
    LET reference == upper(strip(raw))
        i         == existing(seats, reference)
    IN
    /\ schema = "PartB" /\ ~hung
    /\ UNCHANGED <<schema, hung, pc, sel, cand, result>>
    /\ IF i = 0 \/ seats[i].type # "seat"
       THEN /\ UNCHANGED <<seats, travelers>>
            /\ Ran("PartB", "free", raw, "Invalid reference.", <<>>, Value(reference))
       ELSE /\ travelers' = delete_traveler(travelers, reference)
            /\ seats' = [seats EXCEPT ![i].booking_reference = Null]
            /\ Ran("PartB", "free", raw, "Freed seat.", seats[i].seat_id,
                   Value(reference))

-----------------------------------------------------------------------------
(* The programs, one caller at a time *)

Next ==
    \/ \E prog \in {"PartA_4", "PartB"}, csv \in CsvFiles : Main(prog, csv)
    \/ \E raw \in SeatIdInputs : book_seat_A(raw)
    \/ \E raw \in SeatIdInputs : free_seat_A(raw)
    \/ \E raw \in CheckInputs : check_availability_A(raw)
    \/ \E raw \in CheckInputs : check_availability_B(raw)
    \/ show_booking_status_A
    \/ show_booking_status_B
    \/ \E raw \in ChoiceInputs, typed \in TravelerInputs : book_seat_B(raw, typed)
    \/ \E raw \in ReferenceInputs : free_seat_B(raw)

Spec == Init /\ [][Next]_vars

-----------------------------------------------------------------------------
(* PartB.py, two callers on the same database file: book_seat step by step *)

Booked == "Booked successfully."
Failed == "Booking failed (duplicate reference)."

\* Each caller is a process that ran main() on the loaded file and has its
\* own session. A query reads the committed rows; the Seat object a session
\* loaded is written back by seat_id at the flush of its commit, which SQLite
\* runs as one write transaction. Both callers book, again and again; only
\* their variables and the tables change here, the record of the last
\* invocation is not kept.
InitConc ==
    /\ \E csv \in CsvFiles :
          seats = initialize_database("PartB", <<>>, csv)
    /\ schema = "PartB"
    /\ travelers = {}
    /\ hung = FALSE
    /\ last = NoOp
    /\ before = NoTables
    /\ last2 = NoOp
    /\ before2 = NoTables
    /\ pc = [p \in Callers |-> "menu"]
    /\ sel = [p \in Callers |-> Null]
    /\ cand = [p \in Callers |-> Null]
    /\ result = [p \in Callers |-> "none"]

\* what each caller types at the passport and name prompts
Details(p) ==
    IF p = "c1"
    THEN [passport |-> <<"P","7">>, first_name |-> <<"A","n","n">>, last_name |-> <<"L","e","e">>]
    ELSE [passport |-> <<"Q","8">>, first_name |-> <<"B","o">>, last_name |-> <<"R","a","y">>]

\* book_seat up to generate_booking_reference: the choice and the seat query
Select(p, raw) ==
    LET choice == strip(raw)
        i      == first_available(seats, category_map(choice))
    IN
    /\ pc[p] = "menu"
    /\ UNCHANGED <<schema, seats, travelers, hung, last, before, last2, before2, cand>>
    /\ result' = [result EXCEPT ![p] = "none"]
    /\ IF category_map(choice) = "None" \/ i = 0
       THEN UNCHANGED <<pc, sel>>
       ELSE /\ pc' = [pc EXCEPT ![p] = "generate"]
            /\ sel' = [sel EXCEPT ![p] = Value(seats[i].seat_id)]

\* one pass of the while loop of generate_booking_reference
Draw(p, reference) ==
    /\ pc[p] = "generate"
    /\ cand' = [cand EXCEPT ![p] = Value(reference)]
    /\ pc' = [pc EXCEPT ![p] =
                 IF returns_reference(seats, reference) THEN "commit" ELSE "generate"]
    /\ UNCHANGED <<schema, seats, travelers, hung, last, before, last2, before2,
                   sel, result>>

\* the rest of book_seat: the seat and the traveler written and committed
Commit(p) ==
    LET seat_id   == sel[p][1]
        reference == cand[p][1]
        typed     == Details(p)
        seat      == seats[query_seat_id(seats, seat_id)]
        traveler  == Traveler(reference, strip(typed.passport),
                              strip(typed.first_name), strip(typed.last_name), seat)
        r == commit_booking(seats, travelers, seat_id, reference, traveler)
    IN
    /\ pc[p] = "commit"
    /\ seats' = r.seats
    /\ travelers' = r.travelers
    /\ pc' = [pc EXCEPT ![p] = "menu"]
    /\ result' = [result EXCEPT ![p] = IF r.ok THEN Booked ELSE Failed]
    /\ sel' = [sel EXCEPT ![p] = Null]
    /\ cand' = [cand EXCEPT ![p] = Null]
    /\ UNCHANGED <<schema, hung, last, before, last2, before2>>

NextConc ==
    \/ \E p \in Callers, raw \in ChoiceInputs : Select(p, raw)
    \/ \E p \in Callers, reference \in Refs : Draw(p, reference)
    \/ \E p \in Callers : Commit(p)

SpecConc == InitConc /\ [][NextConc]_vars

\* random.choices gives every string over chars a positive probability at
\* every pass of the loop, so with probability 1 a caller that stays in the
\* loop draws each value again and again: a draw that stays possible is
\* eventually made.
FairDraws == \A p \in Callers, reference \in Refs : WF_vars(Draw(p, reference))

SpecDraws == InitConc /\ [][NextConc]_vars /\ FairDraws

-----------------------------------------------------------------------------
(* Properties of the programs run by one caller (Spec) *)

\* the rows of a Seats table holding reference value v (Null or Value(r))
Holding(table, v) == {i \in 1..Len(table) : table[i].booking_reference = v}

\* the travelers keyed by reference value v
KeyedBy(trav, v) == {t \in trav : Value(t.booking_reference) = v}

Freed(inv) ==
    inv.op = "free" /\ inv.outcome \in {"freed successfully.", "Freed seat."}

\* C1: in PartB a Traveler record with booking_reference r exists if and only
\* if exactly one seat holds r: every traveler has its one reserved seat and
\* every reserved seat its one traveler.
C1_TravelerIffReservedSeat ==
    schema = "PartB" =>
        /\ \A t \in travelers :
              Cardinality(Holding(seats, Value(t.booking_reference))) = 1
        /\ \A i \in 1..Len(seats) :
              seats[i].booking_reference # Null
                 => Cardinality(KeyedBy(travelers, seats[i].booking_reference)) = 1

\* a booking has been freed while another one stands
C1_Witness ==
    /\ last.prog = "PartB" /\ Freed(last)
    /\ travelers # {}
    /\ before.travelers # travelers

\* C2: no two seats hold the same booking_reference, and the reference a
\* booking was given by generate_booking_reference was held by no seat when
\* it was returned.
C2_ReferencesUnique ==
    schema = "PartB" =>
        /\ \A i, j \in 1..Len(seats) :
              (i # j /\ seats[i].booking_reference # Null)
                 => seats[i].booking_reference # seats[j].booking_reference
        /\ (last.prog = "PartB" /\ last.op = "book" /\ last.reference # Null)
              => Holding(before.seats, last.reference) = {}

\* a reference was minted and written while another seat held an earlier one
C2_Witness ==
    /\ last.prog = "PartB" /\ Reserved(last)
    /\ \E i \in 1..Len(before.seats) : before.seats[i].booking_reference # Null
    /\ Cardinality({i \in 1..Len(seats) : seats[i].booking_reference # Null}) = 2

\* the place of a row label in the alphabet
RowRank(row) == CHOOSE k \in 1..Len(ascii_uppercase) : ascii_uppercase[k] = row[1]

\* seat a comes no later than seat b in (row, position) order
Precedes(a, b) ==
    \/ RowRank(a.row) < RowRank(b.row)
    \/ a.row = b.row /\ a.position <= b.position

\* C4: the seat book_seat reserves is the least in (row, position) order
\* among the seats of its category that were available.
C4_LeastRowPosition ==
    (last.prog = "PartB" /\ Reserved(last)) =>
        \A i, j \in 1..Len(before.seats) :
            ( /\ before.seats[i].seat_id = last.seat_id
              /\ before.seats[j].category = before.seats[i].category
              /\ before.seats[j].booking_reference = Null )
               => Precedes(before.seats[i], before.seats[j])

\* the freeing releases the booking made by the invocation just before it
SameBooking ==
    /\ Freed(last) /\ Reserved(last2)
    /\ last.prog = last2.prog
    /\ IF last.prog = "PartA_4" THEN last.seat_id = last2.seat_id
       ELSE last.reference = last2.reference

\* C5: a reservation followed by the release of that booking leaves the
\* tables as they were before the reservation: the seat is available again,
\* no Traveler is keyed by the released reference, all else is as it was.
C5_RoundTrip ==
    SameBooking =>
        /\ seats = before2.seats
        /\ travelers = before2.travelers
        /\ \A i \in 1..Len(seats) :
              seats[i].seat_id = last.seat_id =>
                 IF schema = "PartA_4" THEN seats[i].status = "F"
                 ELSE seats[i].booking_reference = Null
        /\ schema = "PartB" => KeyedBy(travelers, last.reference) = {}

\* a PartB round trip made while another booking stands
C5_Witness ==
    /\ SameBooking
    /\ schema = "PartB"
    /\ travelers # {}

\* C6: free_seat on a seat that is free (PartA_4), or on a reference no seat
\* holds (PartB), reports "Seat is not booked." / "Invalid reference." and
\* leaves both tables as they were.
C6_ReleaseOfFreeRejected ==
    /\ ( /\ last.prog = "PartA_4" /\ last.op = "free"
         /\ \E i \in 1..Len(before.seats) :
               /\ before.seats[i].seat_id = last.seat_id
               /\ before.seats[i].type = "seat"
               /\ before.seats[i].status = "F" )
          => /\ last.outcome = "Seat is not booked."
             /\ Tables = before
    /\ ( /\ last.prog = "PartB" /\ last.op = "free"
         /\ Holding(before.seats, last.reference) = {} )
          => /\ last.outcome = "Invalid reference."
             /\ Tables = before

\* a reference nobody holds was typed while a booking stands
C6_Witness ==
    /\ last.prog = "PartB" /\ last.op = "free"
    /\ last.outcome = "Invalid reference."
    /\ travelers # {}

\* C7: free_seat with a reference r that a seat holds removes the Traveler
\* keyed by r and no other, and clears the reference of the one seat that
\* held r and of no other.
C7_FreeFrame ==
    ( /\ last.prog = "PartB" /\ last.op = "free"
      /\ Holding(before.seats, last.reference) # {} )
       => /\ Cardinality(Holding(before.seats, last.reference)) = 1
          /\ KeyedBy(before.travelers, last.reference) # {}
          /\ travelers = before.travelers \ KeyedBy(before.travelers, last.reference)
          /\ Len(seats) = Len(before.seats)
          /\ \A i \in 1..Len(seats) :
                seats[i] = IF before.seats[i].booking_reference = last.reference
                           THEN [before.seats[i] EXCEPT !.booking_reference = Null]
                           ELSE before.seats[i]

\* one of two bookings was freed
C7_Witness ==
    /\ last.prog = "PartB" /\ last.op = "free"
    /\ Holding(before.seats, last.reference) # {}
    /\ travelers # {}

\* C8: PartA_4's book_seat reserves the seat only when the id names a seat
\* that is free; an unknown id, an aisle or storage position and a reserved
\* seat are each rejected with their message and no seat changes.
C8_ReserveBySeatId ==
    (last.prog = "PartA_4" /\ last.op = "book") =>
        LET T == before.seats
            S == {i \in 1..Len(T) : T[i].seat_id = last.seat_id}
        IN  IF S = {}
            THEN last.outcome = "Invalid seat number." /\ seats = T
            ELSE \A i \in S :
                   IF T[i].type # "seat"
                   THEN last.outcome = "Cannot book non-seat area." /\ seats = T
                   ELSE IF T[i].status = "R"
                   THEN last.outcome = "Seat already booked." /\ seats = T
                   ELSE /\ last.outcome = "booked successfully."
                        /\ seats = [T EXCEPT ![i].status = "R"]

\* a reserved seat was asked for again
C8_Witness ==
    /\ last.prog = "PartA_4" /\ last.op = "book"
    /\ last.outcome = "Seat already booked."

\* the rows of a Seats table with the given seat_id
WithId(table, seat_id) == {i \in 1..Len(table) : table[i].seat_id = seat_id}

\* the invocation answered an availability query
Checked(inv) == inv.op = "check"

\* C11: check_availability changes no state and tells three cases apart: no
\* position has the id (seat not found), the position is an aisle or a
\* storage bay (not a seat, an answer other than seat not found), and a seat,
\* reported available exactly when it holds no booking.
C11_CheckAvailabilityThreeOutcomes ==
    Checked(last) =>
        LET rows == WithId(before.seats, last.seat_id) IN
        /\ Tables = before
        /\ (rows = {}) <=> (last.outcome = "Invalid seat number.")
        /\ \A i \in rows :
              IF before.seats[i].type # "seat"
              THEN last.outcome \notin {"is available.", "is booked."}
              ELSE IF last.prog = "PartB"
                   THEN (last.outcome = "is available.")
                           <=> (before.seats[i].booking_reference = Null)
                   ELSE (last.outcome = "is available.")
                           <=> (before.seats[i].status = "F")

\* main() ran initialize_database on an empty Seats table
LoadedFrom(inv, tables) ==
    inv.op = "main" /\ inv.outcome # "OperationalError" /\ tables.seats = <<>>

\* two positions of the layout get the same seat_id
DuplicateSeatId(prog, csv) ==
    LET pending == pending_seats(prog, csv) IN
    \E i, j \in 1..Len(pending) : i # j /\ pending[i].seat_id = pending[j].seat_id

\* C12: initialization is atomic. When the layout gives two positions the
\* same seat_id, or a line of the file cannot be read, the Seats table is
\* left empty; otherwise it holds every position of the layout, in file
\* order. No part of a layout is ever persisted, and no traveler is touched.
C12_InitializationAtomic ==
    LoadedFrom(last, before) =>
        /\ travelers = before.travelers
        /\ IF DuplicateSeatId(last.prog, last.input) \/ raises_IndexError(last.input)
           THEN seats = <<>>
           ELSE seats = pending_seats(last.prog, last.input)

\* a layout with a duplicate seat_id was loaded and rolled back
C12_Witness ==
    /\ LoadedFrom(last, before)
    /\ DuplicateSeatId(last.prog, last.input)
    /\ seats = <<>>

\* C13: initialization is idempotent. initialize_database on a Seats table
\* that is not empty changes no seat and no traveler, whatever was booked
\* in between.
C13_InitializationIdempotent ==
    (last.op = "main" /\ before.seats # <<>>) => Tables = before

\* main() ran again on a table with a reserved seat
C13_Witness ==
    /\ last.op = "main" /\ last.outcome = "kept"
    /\ \E i \in 1..Len(seats) :
          IF last.prog = "PartB" THEN seats[i].booking_reference # Null
          ELSE seats[i].status = "R"

\* C14: a position that is an aisle or a storage bay never holds a booking:
\* in PartB it has no booking_reference and no category, in PartA_4 no
\* status, in every reachable state.
C14_NonSeatNeverReserved ==
    \A i \in 1..Len(seats) :
        seats[i].type # "seat" =>
            IF schema = "PartB"
            THEN seats[i].booking_reference = Null /\ seats[i].category = "None"
            ELSE seats[i].status = "None"

\* PartB holds a booking in a cabin whose first position is a storage bay
C14_Witness ==
    /\ schema = "PartB"
    /\ Len(seats) > 0 /\ seats[1].type = "storage"
    /\ \E i \in 1..Len(seats) : seats[i].booking_reference # Null

\* C15: every Traveler record has a passport number, a first name and a
\* last name that are not empty.
C15_TravelerFieldsNonEmpty ==
    \A t \in travelers :
        /\ t.passport_number # <<>>
        /\ t.first_name # <<>>
        /\ t.last_name # <<>>

\* the invocation printed the booking status
Shown(inv) == inv.op = "show"

\* the row label a printed line starts with
LineLabel(line) == <<line[1]>>

\* the symbols of a printed line: PartA_4 prints "A,F,R", PartB "A: F R"
LineCells(prog, line) ==
    LET w == IF prog = "PartB" THEN 2 ELSE 1 IN
    [k \in 1..((Len(line) - w) \div 2) |-> line[w + 2 * k]]

\* the symbol the status grid has for a position
GridSymbol(prog, seat) ==
    IF seat.type = "aisle" THEN " "
    ELSE IF seat.type = "storage" THEN "S"
    ELSE IF prog = "PartB"
         THEN (IF seat.booking_reference # Null THEN "R" ELSE "F")
         ELSE (IF seat.status = "R" THEN "R" ELSE "F")

\* C16: show_booking_status changes nothing and prints every row of the
\* seat map, the rows in label order, and in each row one symbol per
\* position in position order: blank for an aisle, S for storage, R for a
\* reserved seat and F for a free one.
C16_StatusGridRendersSeatMap ==
    Shown(last) =>
        LET out   == last.outcome
            table == before.seats
        IN
        /\ Tables = before
        /\ \A i \in 1..Len(table) :
              \E n \in 1..Len(out) : LineLabel(out[n]) = table[i].row
        /\ \A m, n \in 1..Len(out) :
              m < n => RowRank(LineLabel(out[m])) < RowRank(LineLabel(out[n]))
        /\ \A n \in 1..Len(out) :
              LET cells  == LineCells(last.prog, out[n])
                  in_row == {i \in 1..Len(table) : table[i].row = LineLabel(out[n])}
              IN
              /\ Len(cells) = Cardinality(in_row)
              /\ \A i \in in_row :
                    /\ table[i].position <= Len(cells)
                    /\ cells[table[i].position] = GridSymbol(last.prog, table[i])

\* what a seat holds: PartB's booking_reference, PartA_4's status
Held(seat) == IF schema = "PartB" THEN seat.booking_reference ELSE seat.status

\* the seat holds no booking
IsFree(seat) ==
    IF schema = "PartB" THEN seat.booking_reference = Null ELSE seat.status # "R"

\* C17: in every step each seat keeps what it holds, or goes from free to
\* reserved in a successful book_seat, or from reserved to free in a
\* successful free_seat. No step replaces one reference by another, and a
\* step of a failed operation changes no seat.
C17_SeatProtocol ==
    [][ \A i \in 1..Len(seats) :
           /\ Len(seats') = Len(seats)
           /\ \/ Held(seats'[i]) = Held(seats[i])
              \/ /\ IsFree(seats[i]) /\ ~IsFree(seats[i])'
                 /\ Reserved(last')
              \/ /\ ~IsFree(seats[i]) /\ IsFree(seats[i])'
                 /\ Freed(last') ]_vars

\* a seat was freed while another seat stays reserved
C17_Witness ==
    /\ Freed(last)
    /\ \E i, j \in 1..Len(seats) :
          /\ ~IsFree(before.seats[i]) /\ IsFree(seats[i])
          /\ ~IsFree(before.seats[j]) /\ ~IsFree(seats[j])

\* the category a choice asks for
Requested(choice) ==
    IF choice = <<"1">> THEN "window"
    ELSE IF choice = <<"2">> THEN "middle"
    ELSE IF choice = <<"3">> THEN "aisle"
    ELSE "None"

\* the seats of a category that hold no booking
FreeIn(table, category) ==
    {i \in 1..Len(table) :
        /\ table[i].type = "seat"
        /\ table[i].category = category
        /\ table[i].booking_reference = Null}

\* C19: PartB's book_seat with a choice other than 1, 2, 3 reports "Invalid
\* choice.", and with the choice of a category that has no free seat reports
\* "No seats available in this category."; in both cases it returns without
\* minting a reference (so it cannot stay in generate_booking_reference) and
\* leaves both tables as they were.
C19_NoSeatAvailableChangesNothing ==
    (last.prog = "PartB" /\ last.op = "book") =>
        LET category == Requested(strip(last.input)) IN
        /\ category = "None" =>
              /\ last.outcome = "Invalid choice."
              /\ last.reference = Null /\ ~hung
              /\ Tables = before
        /\ (category # "None" /\ FreeIn(before.seats, category) = {}) =>
              /\ last.outcome = "No seats available in this category."
              /\ last.reference = Null /\ ~hung
              /\ Tables = before

\* a category with seats, all of them reserved, was asked for while every
\* reference value is held
C19_Witness ==
    /\ last.prog = "PartB" /\ last.op = "book"
    /\ last.outcome = "No seats available in this category."
    /\ \E i \in 1..Len(seats) :
          seats[i].category = Requested(strip(last.input))
    /\ \A reference \in Refs : Holding(seats, Value(reference)) # {}

-----------------------------------------------------------------------------
(* Properties of two callers booking at once (SpecConc) *)

\* caller p's commit is the step taken
CommitStep(p) == pc[p] = "commit" /\ pc'[p] = "menu"

\* the rows of the seat caller p's session loaded
Selected(table, p) == {i \in 1..Len(table) : Value(table[i].seat_id) = sel[p]}

\* C3, as amended: a commit of book_seat that fails leaves both tables as
\* they were before it; one that succeeds has written both the selected
\* seat's booking_reference and a new Traveler record keyed by it.
C3_CommitAllOrNothing ==
    [][ \A p \in Callers :
           CommitStep(p) =>
              \/ /\ result'[p] = Failed
                 /\ seats' = seats
                 /\ travelers' = travelers
              \/ /\ result'[p] = Booked
                 /\ Holding(seats', cand[p]) = Selected(seats, p)
                 /\ \E t \in travelers' \ travelers :
                       /\ Value(t.booking_reference) = cand[p]
                       /\ travelers' = travelers \cup {t} ]_vars

\* a commit was rejected
C3_Witness == \E p \in Callers : result[p] = Failed /\ travelers # {}

\* C3, as stated: after a failed commit the selected seat has no
\* booking_reference and no Traveler record is keyed by the minted
\* reference; after a successful one both are set.
C3_FailedCommitLeavesNothing ==
    [][ \A p \in Callers :
           CommitStep(p) =>
              \/ /\ result'[p] = Failed
                 /\ \A i \in Selected(seats', p) : seats'[i].booking_reference = Null
                 /\ KeyedBy(travelers', cand[p]) = {}
              \/ /\ result'[p] = Booked
                 /\ Holding(seats', cand[p]) = Selected(seats, p)
                 /\ KeyedBy(travelers', cand[p]) # {} ]_vars

\* C9: a booking whose commit is rejected for a duplicate reference goes
\* back to generating a reference instead of ending, and the rejected write
\* replaces no Traveler record.
C9_RejectedBookingRetries ==
    [][ \A p \in Callers :
           (pc[p] = "commit" /\ result'[p] = Failed)
              => /\ pc'[p] = "generate"
                 /\ travelers \subseteq travelers' ]_vars

\* C10: a commit reserves only a seat no booking holds, and leaves the seat
\* reference and the Traveler record of every earlier booking in place; no
\* reference is ever committed for two bookings.
C10_NoDoubleReservation ==
    [][ \A p \in Callers :
           CommitStep(p) =>
              /\ result'[p] = Booked
                    => \A i \in Selected(seats, p) : seats[i].booking_reference = Null
              /\ \A i \in 1..Len(seats) :
                    seats[i].booking_reference # Null
                       => seats'[i].booking_reference = seats[i].booking_reference
              /\ travelers \subseteq travelers'
              /\ \A i, j \in 1..Len(seats) :
                    (i # j /\ seats'[i].booking_reference # Null)
                       => seats'[i].booking_reference # seats'[j].booking_reference
              /\ \A t, u \in travelers' :
                    t.booking_reference = u.booking_reference => t = u ]_vars

-----------------------------------------------------------------------------
(* Properties of generate_booking_reference under fair draws (SpecDraws) *)

\* no seat holds the reference
Unused(reference) == Holding(seats, Value(reference)) = {}

\* the caller's call of generate_booking_reference returns in this step
ReturnStep(p) == pc[p] = "generate" /\ pc'[p] = "commit"

\* C18: generate_booking_reference leaves its loop only by returning the
\* value just drawn, and only when no seat holds that value; and a caller in
\* the loop eventually returns, unless every reference value has come to be
\* held by a seat.
C18_GenerateTerminates ==
    /\ [][ \A p \in Callers :
             /\ pc[p] = "generate" => pc'[p] \in {"generate", "commit"}
             /\ ReturnStep(p) =>
                   \E reference \in Refs :
                       /\ cand'[p] = Value(reference)
                       /\ Unused(reference) ]_vars
    /\ \A p \in Callers :
          (pc[p] = "generate" /\ \E reference \in Refs : Unused(reference))
             ~> (pc[p] = "commit" \/ \A reference \in Refs : ~Unused(reference))

\* a caller drew a value a seat holds and is back at the top of the loop,
\* with another value still unused
C18_Witness ==
    \E p \in Callers :
        /\ pc[p] = "generate"
        /\ \E reference \in Refs : cand[p] = Value(reference) /\ ~Unused(reference)
        /\ \E reference \in Refs : Unused(reference)

====
